---- MODULE Spec2Model ----
(***************************************************************************)
(* A model of the connector manager of the Synapse Go connector PoC        *)
(* (synapse-server/connector_manager.go), of the wire protocol types       *)
(* (protocol/protocol.go) and of the sample worker                         *)
(* (connectors/simple-file-connector/main.go).                             *)
(*                                                                         *)
(* Callers are goroutines that call ConnectorManager.Invoke; Main is the   *)
(* goroutine that calls ConnectorManager.ShutdownAll.  Each blocking point *)
(* of the code (lock acquisition, sleep, dial, write, read) separates two  *)
(* steps of the model.                                                     *)
(***************************************************************************)
EXTENDS Integers, Sequences, FiniteSets, TLC

---------------------------------------------------------------------------
(* Bounds of the model *)

\* number of goroutines that call Invoke
NumCallers == 2
\* total number of Invoke calls made by all the callers together
MaxCalls == 2

\* number of entries of the definitions directory
MaxFiles == 2

Callers == 1..NumCallers
\* the goroutine that calls ShutdownAll
Main == NumCallers + 1
\* value of a mutex that nobody holds
Free == 0

---------------------------------------------------------------------------
(* Go values: maps, byte slices, interface{} values *)

\* a Go map: nil, or a set of <<key, value>> pairs with distinct keys
NilMap == [nil |-> TRUE, kv |-> {}]
MkMap(pairs) == [nil |-> FALSE, kv |-> pairs]
Keys(m) == {p[1] : p \in m.kv}
HasKey(m, k) == k \in Keys(m)
Get(m, k) == (CHOOSE p \in m.kv : p[1] = k)[2]
\* m[k] = v on a non-nil map
Put(m, k, v) == MkMap({p \in m.kv : p[1] # k} \cup {<<k, v>>})

\* an interface{} value: <<dynamic type, value>>
StrV(s) == <<"string", s>>
IntV(n) == <<"int", n>>
FloatV(n) == <<"float64", n>>
\* a value encoding/json has no encoding for (a channel, a func, a NaN)
ChanV == <<"chan", "">>
\* v.(string) : <<value, ok>>
AsString(m, k) ==
    IF HasKey(m, k) /\ Get(m, k)[1] = "string" THEN <<Get(m, k)[2], TRUE>> ELSE <<"", FALSE>>

\* a []byte: nil (<<>>) or the bytes of a string (<<s>>)
NilBytes == <<>>
Bytes(s) == <<s>>

\* the zero value of protocol.MessageContext
ZeroMessageContext ==
    [messageId |-> "", payload |-> NilBytes, properties |-> NilMap, headers |-> NilMap]

---------------------------------------------------------------------------
(* encoding/json: what a value becomes when it is encoded and decoded *)

\* a number decoded into an interface{} is a float64
JSONValue(v) == IF v[1] = "int" THEN FloatV(v[2]) ELSE v
\* a nil map is encoded as null and decodes to nil
JSONMap(m) == IF m.nil THEN NilMap ELSE MkMap({<<p[1], JSONValue(p[2])>> : p \in m.kv})
\* []byte is base64 text, map[string]string keeps its strings
JSONMessageContext(ctx) == [ctx EXCEPT !.properties = JSONMap(@)]
JSONRequest(req) ==
    [req EXCEPT !.connectorConfig = JSONMap(@),
                !.operationParams = JSONMap(@),
                !.messageContextIn = JSONMessageContext(@)]
\* JSONResponse that loses the message context
JSONResponseZeroContext(resp) == [resp EXCEPT !.messageContextOut = ZeroMessageContext]

\* the response as the decoder of Invoke yields it
JSONResponse(resp) == [resp EXCEPT !.messageContextOut = JSONMessageContext(@)]

\* json.Marshal succeeds on the values of a map
EncodableMap(m) == \A p \in m.kv : p[2][1] # "chan"
\* encoder.Encode(req) has something to write: nothing is written otherwise
EncodableRequest(req) ==
    /\ EncodableMap(req.connectorConfig)
    /\ EncodableMap(req.operationParams)
    /\ EncodableMap(req.messageContextIn.properties)

---------------------------------------------------------------------------
(* The connector definitions loaded by NewConnectorManager *)

Names == {"F", "G"}
\* names passed to Invoke: the defined ones and one without a definition
InvokeNames == Names \cup {"U"}

LoadedDefinitions ==
    [n \in Names |->
        IF n = "F"
        THEN [name |-> "F", defaultPort |-> 9091,
              defaultConfig |-> MkMap({<<"baseDirectory", StrV("./data")>>})]
        ELSE [name |-> "G", defaultPort |-> 9092, defaultConfig |-> NilMap]]

\* A definition file as a JSON document: whether it is valid JSON, and its
\* fields when it is an object.  A number is <<"number", n>>.
Document(valid, fields) == [valid |-> valid, fields |-> MkMap(fields)]

\* the field of a document as the Go field of that type takes it: the value, the
\* zero value when the key is absent, and whether the types agree
FieldAs(doc, key, type, zero) ==
    IF ~HasKey(doc.fields, key) THEN <<zero, TRUE>>
    ELSE IF Get(doc.fields, key)[1] = type THEN <<Get(doc.fields, key)[2], TRUE>>
    ELSE <<zero, FALSE>>

\* json.Unmarshal(data, &def): <<def, ok>>.  It fails on invalid JSON and on a
\* field of the wrong type; a key that is absent leaves the zero value.
Unmarshal(doc) ==
    LET name == FieldAs(doc, "name", "string", "")
        port == FieldAs(doc, "default_port", "number", 0)
        config == FieldAs(doc, "default_config", "object", NilMap)
    IN  <<[name |-> name[1], defaultPort |-> port[1], defaultConfig |-> config[1]],
          doc.valid /\ name[2] /\ port[2] /\ config[2]>>

\* an entry of the definitions directory
DirEntry(ext, readable, doc) == [ext |-> ext, readable |-> readable, doc |-> doc]

DocF ==
    Document(TRUE, {<<"name", <<"string", "F">>>>, <<"default_port", <<"number", 9091>>>>,
                    <<"default_config",
                      <<"object", MkMap({<<"baseDirectory", StrV("./data")>>})>>>>})
\* a second definition of the name F, on another port
DocF2 ==
    Document(TRUE, {<<"name", <<"string", "F">>>>, <<"default_port", <<"number", 9093>>>>,
                    <<"default_config", <<"object", MkMap({})>>>>})
\* text that is not JSON
DocGarbage == Document(FALSE, {})
\* JSON whose name is a number
DocBadType == Document(TRUE, {<<"name", <<"number", 5>>>>})
\* a JSON object without a name
DocNoName == Document(TRUE, {<<"default_port", <<"number", 9094>>>>})

DirEntries ==
    {DirEntry(".json", TRUE, d) : d \in {DocF, DocF2, DocGarbage, DocBadType, DocNoName}}
        \cup {DirEntry(".txt", TRUE, DocF), DirEntry(".json", FALSE, DocF)}

\* the listings ioutil.ReadDir can return, in the order of the file names
Listings == UNION {[1..n -> DirEntries] : n \in 0..MaxFiles}

\* the loop body of NewConnectorManager decides to store the definition of an entry
Loads(e) == e.ext = ".json" /\ e.readable /\ Unmarshal(e.doc)[2]

\* cm.connectorDefinitions[def.Name] = def
StoreDefinition(defs, def) ==
    [n \in DOMAIN defs \cup {def.name} |-> IF n = def.name THEN def ELSE defs[n]]

---------------------------------------------------------------------------
(* The sample worker: createFile, readFile and the dispatch of             *)
(* handleConnection, as functions of the request and the file system       *)

\* filepath.Join(baseDir, filename) for the directories of the model
Join(baseDir, filename) ==
    CASE baseDir = "." -> filename
      [] baseDir = "./data" -> "data/" \o filename
      [] OTHER -> baseDir \o "/" \o filename

\* baseDir, _ := req.ConnectorConfig["baseDirectory"].(string); "" becomes "."
BaseDir(req) ==
    LET d == AsString(req.connectorConfig, "baseDirectory")[1]
    IN  IF d = "" THEN "." ELSE d

\* outCtx.Properties, made when nil
PropertiesOf(ctx) == IF ctx.properties.nil THEN MkMap({}) ELSE ctx.properties

\* DecodeFailureResponse without the message of the error
DecodeFailureResponseNoMessage(err) ==
    [success |-> FALSE, messageContextOut |-> ZeroMessageContext, errorMessage |-> ""]

\* the response of the worker to a request it could not decode
DecodeFailureResponse(err) ==
    [success |-> FALSE, messageContextOut |-> ZeroMessageContext,
     errorMessage |-> "Failed to decode request: " \o err]

\* FailureResponse that returns an empty message context
FailureResponseZeroContext(req, msg) ==
    [success |-> FALSE, messageContextOut |-> ZeroMessageContext, errorMessage |-> msg]

\* the response of the worker when the operation fails: the context is echoed
FailureResponse(req, msg) ==
    [success |-> FALSE, messageContextOut |-> req.messageContextIn, errorMessage |-> msg]

\* createFile: <<response, file system afterwards>>; ioOk is whether MkdirAll and
\* WriteFile succeed
createFile(req, fs, ioOk) ==
    LET filename == AsString(req.operationParams, "filename")
        content == AsString(req.operationParams, "content")
        fullPath == Join(BaseDir(req), filename[1])
        outCtx == [req.messageContextIn EXCEPT
                     !.properties = Put(Put(PropertiesOf(req.messageContextIn),
                                            "file.write.path", StrV(fullPath)),
                                        "file.write.status", StrV("success"))]
    IN  IF ~filename[2] \/ ~content[2]
        THEN <<FailureResponse(req, "filename or content parameter missing/invalid"), fs>>
        ELSE IF ~ioOk
        THEN <<FailureResponse(req, "failed to write file " \o fullPath), fs>>
        ELSE <<[success |-> TRUE, messageContextOut |-> outCtx, errorMessage |-> ""],
               {f \in fs : f[1] # fullPath} \cup {<<fullPath, content[1]>>}>>

\* readFile that answers every failure with an empty payload
readFileClearsPayload(req, fs) ==
    [success |-> FALSE,
     messageContextOut |-> [req.messageContextIn EXCEPT !.payload = NilBytes],
     errorMessage |-> "failed to read file"]

\* readFile: the response; the file system is left alone
readFile(req, fs) ==
    LET filename == AsString(req.operationParams, "filename")
        fullPath == Join(BaseDir(req), filename[1])
        found == {f \in fs : f[1] = fullPath}
        data == (CHOOSE f \in found : TRUE)[2]
        outCtx == [req.messageContextIn EXCEPT
                     !.payload = Bytes(data),
                     !.properties = Put(PropertiesOf(req.messageContextIn),
                                        "file.read.path", StrV(fullPath))]
    IN  IF ~filename[2]
        THEN FailureResponse(req, "filename parameter missing/invalid")
        ELSE IF found = {}
        THEN FailureResponse(req, "failed to read file " \o fullPath)
        ELSE [success |-> TRUE, messageContextOut |-> outCtx, errorMessage |-> ""]

\* the switch of handleConnection on req.OperationName
Dispatch(req, fs, ioOk) ==
    CASE req.operationName = "create" -> createFile(req, fs, ioOk)
      [] req.operationName = "read" -> <<readFile(req, fs), fs>>
      [] OTHER -> <<FailureResponse(req, "Unknown operation: " \o req.operationName), fs>>

---------------------------------------------------------------------------
(* Inputs of Invoke *)

MessageId(c) == IF c = 1 THEN "m1" ELSE IF c = 2 THEN "m2" ELSE "m3"

\* a message context with every field set, as the ones main.go builds
FullContext(c) ==
    [messageId |-> MessageId(c), payload |-> Bytes("<data/>"),
     properties |-> MkMap({<<"flowName", StrV("flow")>>, <<"retries", IntV(3)>>}),
     headers |-> MkMap({<<"X-Request-ID", "123">>})]

\* a message context with the messageId alone
BareContext(c) ==
    [messageId |-> MessageId(c), payload |-> NilBytes, properties |-> NilMap,
     headers |-> NilMap]

Operations == {"create", "read", "delete"}
Overrides == {NilMap, MkMap({<<"baseDirectory", StrV("/b")>>, <<"x", StrV("y")>>})}
FileParams == MkMap({<<"filename", StrV("t.txt")>>, <<"content", StrV("hi")>>})
\* params that cannot be encoded
BadParams == MkMap({<<"filename", StrV("t.txt")>>, <<"content", ChanV>>})
ParamSets == {FileParams, MkMap({}), BadParams}
\* how locating and starting the executable ends
SpawnOutcomes == {"ok", "noexe", "startfail"}

\* The callers that run and the inputs they draw from: two concurrent callers
\* that draw from few values, every caller on one connector name, and a single
\* caller that draws from all the values.
ConcurrentInputs ==
    [callers |-> {1, 2}, names |-> InvokeNames,
     contexts |-> [c \in Callers |-> {FullContext(c)}],
     operations |-> {"create"}, overrides |-> {NilMap}, params |-> {FileParams}]

SameNameInputs == [ConcurrentInputs EXCEPT !.callers = Callers, !.names = {"F"}]

\* two concurrent callers on the two connectors that have a definition
TwoNameInputs == [ConcurrentInputs EXCEPT !.names = Names]

\* a single caller with one kind of call, for a manager built from any directory
LoadInputs ==
    [callers |-> {1}, names |-> InvokeNames,
     contexts |-> [c \in Callers |-> {BareContext(c)}],
     operations |-> {"create"}, overrides |-> {NilMap}, params |-> {FileParams}]

SequentialInputs ==
    [callers |-> {1}, names |-> InvokeNames,
     contexts |-> [c \in Callers |-> {FullContext(c), BareContext(c)}],
     operations |-> Operations, overrides |-> Overrides, params |-> ParamSets]

---------------------------------------------------------------------------
(* State *)

VARIABLES
    defaultConfig,      \* per definition: the contents of its DefaultConfig map
    runningInstances,   \* cm.runningInstances: name -> instance (0: no entry)
    instances,          \* every RunningConnectorInstance made, with its process;
                        \* orphans: connections to it that were closed unanswered;
                        \* lost: the last response its worker wrote to such a
                        \* connection;
                        \* waited: ShutdownAll is in Cmd.Wait() on it
    instanceMutex,      \* cm.instanceMutex: Free, or who holds it exclusively
    pc,                 \* per caller: where it is in Invoke
    cname,              \* per caller: connectorName of its call
    ctxIn,              \* per caller: msgCtxIn of its call
    inst,               \* per caller: the local variable instance
    conn,               \* per caller: the connection its call opened
    result,             \* per caller: what its last Invoke returned
    mainpc,             \* where Main is in ShutdownAll
    sdTodo,             \* names ShutdownAll's loop has still to visit
    files,              \* the file system the workers write to
    calls,              \* number of Invoke calls begun
    cleared,            \* whether a ShutdownAll has returned
    spawnCount,         \* per name: processes started (cmd.Start succeeded)
    signalCount,        \* number of interrupt signals sent
    ghost,              \* per caller: how its call got its instance (via), the
                        \* tracked instance whose process had already exited when
                        \* the call began (deadAtCall, 0: none), whether the call
                        \* began on a spawn error of the name, with no instance
                        \* recorded, and no other call has started one since, and
                        \* how many times the call has tried to start a process,
                        \* dialled, called Encode and called Decode
    cmpc,               \* where NewConnectorManager is: "readdir", "load", then
                        \* "ready" (it returned cm) or "failed" (it returned an error)
    definitionFiles,    \* the entries of the directory the loop has still to visit
    loadedFiles,        \* the entries the loop has visited, until it returns
    connectorDefinitions \* cm.connectorDefinitions: name -> definition

vars == <<defaultConfig, runningInstances, instances, instanceMutex, pc, cname, ctxIn,
          inst, conn, result, mainpc, sdTodo, files, calls, cleared, spawnCount,
          signalCount, ghost, cmpc, definitionFiles, loadedFiles, connectorDefinitions>>

\* the state of NewConnectorManager
loaderVars == <<cmpc, definitionFiles, loadedFiles, connectorDefinitions>>

NoConn == [open |-> FALSE, proc |-> 0, req |-> <<>>, resp |-> <<>>, override |-> NilMap]
NoResult == <<>>
NoGhost ==
    [via |-> "", deadAtCall |-> 0, afterSpawnError |-> FALSE,
     starts |-> 0, dials |-> 0, sends |-> 0, reads |-> 0]

Init ==
    /\ defaultConfig = [n \in Names |-> LoadedDefinitions[n].defaultConfig]
    /\ runningInstances = [n \in Names |-> 0]
    /\ instances = <<>>
    /\ instanceMutex = Free
    /\ pc = [c \in Callers |-> "idle"]
    /\ cname = [c \in Callers |-> ""]
    /\ ctxIn = [c \in Callers |-> ZeroMessageContext]
    /\ inst = [c \in Callers |-> 0]
    /\ conn = [c \in Callers |-> NoConn]
    /\ result = [c \in Callers |-> NoResult]
    /\ mainpc = "idle"
    /\ sdTodo = {}
    /\ files = {}
    /\ calls = 0
    /\ cleared = FALSE
    /\ spawnCount = [n \in Names |-> 0]
    /\ signalCount = 0
    /\ ghost = [c \in Callers |-> NoGhost]
    /\ cmpc = "ready"
    /\ definitionFiles = <<>>
    /\ loadedFiles = <<>>
    /\ connectorDefinitions = LoadedDefinitions

---------------------------------------------------------------------------
(* Helpers on the state *)

\* Tracked that finds the first instance made, whatever the name
TrackedAnyName(name) == IF instances # <<>> THEN 1 ELSE 0

\* the table entry of a name (a name without definition never has one)
Tracked(name) == IF name \in Names THEN runningInstances[name] ELSE 0

\* Exited that takes every process as exited
ExitedAlways(i) == TRUE

\* instance.Cmd.ProcessState != nil && instance.Cmd.ProcessState.Exited()
Exited(i) == instances[i].exited

\* StillRunning without the double check: the entry is never taken as running
StillRunningNever(name) == FALSE

\* the test of the double check: the entry exists and its process is not known
\* to have exited
StillRunning(name) == Tracked(name) # 0 /\ ~Exited(Tracked(name))

\* the live processes that listen on a port
Listeners(port) ==
    {p \in DOMAIN instances :
        instances[p].alive /\ instances[p].listening /\ instances[p].port = port}

\* GuardFree with one guard for all the instances
GuardFreeGlobal(i) == \A j \in DOMAIN instances : instances[j].mu = Free

\* GuardFree when instance.mu is not honoured
GuardFreeAlways(i) == TRUE

\* instance.mu can be locked
GuardFree(i) == instances[i].mu = Free

\* ErrorResponse without the message of the error
ErrorResponseNoMessage(msg) ==
    [success |-> FALSE, messageContextOut |-> ZeroMessageContext, errorMessage |-> ""]

\* ErrorResponse with the success flag set
ErrorResponseSuccess(msg) ==
    [success |-> TRUE, messageContextOut |-> ZeroMessageContext, errorMessage |-> msg]

\* the synthetic response of a failed Invoke
ErrorResponse(msg) ==
    [success |-> FALSE, messageContextOut |-> ZeroMessageContext, errorMessage |-> msg]

\* currentConnectorConfig after the merge loop: the keys of override written over current
MergeConfig(current, override) ==
    IF override.nil THEN current
    ELSE MkMap({p \in current.kv : ~HasKey(override, p[1])} \cup override.kv)

\* what the merge loop leaves in the map of the definition: the loop writes into
\* instance.Definition.DefaultConfig itself unless that map is nil
ConfigAfterMerge(current, override) ==
    IF current.nil THEN current ELSE MergeConfig(current, override)

\* return from Invoke: (resp, err); the deferred conn.Close and mu.Unlock are
\* done by the actions that call this.  req and wire keep what the call and the
\* worker wrote on the connection of the call (<<>>: nothing)
Return(c, resp, err) ==
    /\ result' = [result EXCEPT ![c] =
                    <<[name |-> cname[c], ctxIn |-> ctxIn[c], resp |-> resp, err |-> err,
                       req |-> conn[c].req, wire |-> conn[c].resp]>>]
    /\ pc' = [pc EXCEPT ![c] = "done"]
    /\ inst' = [inst EXCEPT ![c] = 0]

---------------------------------------------------------------------------
(* NewConnectorManager *)

\* the state in which NewConnectorManager is called, on any directory
InitLoad ==
    /\ defaultConfig = [n \in Names |-> NilMap]
    /\ runningInstances = [n \in Names |-> 0]
    /\ instances = <<>>
    /\ instanceMutex = Free
    /\ pc = [c \in Callers |-> "idle"]
    /\ cname = [c \in Callers |-> ""]
    /\ ctxIn = [c \in Callers |-> ZeroMessageContext]
    /\ inst = [c \in Callers |-> 0]
    /\ conn = [c \in Callers |-> NoConn]
    /\ result = [c \in Callers |-> NoResult]
    /\ mainpc = "idle"
    /\ sdTodo = {}
    /\ files = {}
    /\ calls = 0
    /\ cleared = FALSE
    /\ spawnCount = [n \in Names |-> 0]
    /\ signalCount = 0
    /\ ghost = [c \in Callers |-> NoGhost]
    /\ cmpc = "readdir"
    /\ definitionFiles \in Listings
    /\ loadedFiles = <<>>
    /\ connectorDefinitions = [n \in {} |-> n]

\* ioutil.ReadDir(definitionsDir): the listing, or the error that NewConnectorManager
\* returns
ReadDir ==
    /\ cmpc = "readdir"
    /\ \E ok \in BOOLEAN : cmpc' = IF ok THEN "load" ELSE "failed"
    /\ UNCHANGED <<defaultConfig, runningInstances, instances, instanceMutex, pc, cname,
                   ctxIn, inst, conn, result, mainpc, sdTodo, files, calls, cleared,
                   spawnCount, signalCount, ghost, definitionFiles, loadedFiles,
                   connectorDefinitions>>

\* one iteration of the loop over the files: an entry that is no .json file, that
\* cannot be read or that does not parse is passed over, the definition of any
\* other is stored under its name
LoadFile ==
    /\ cmpc = "load"
    /\ definitionFiles # <<>>
    /\ LET e == Head(definitionFiles)
           def == Unmarshal(e.doc)[1]
       IN  /\ connectorDefinitions' =
                IF Loads(e) THEN StoreDefinition(connectorDefinitions, def)
                ELSE connectorDefinitions
           /\ defaultConfig' =
                IF Loads(e) /\ def.name \in Names
                THEN [defaultConfig EXCEPT ![def.name] = def.defaultConfig]
                ELSE defaultConfig
           /\ loadedFiles' = Append(loadedFiles, e)
    /\ definitionFiles' = Tail(definitionFiles)
    /\ UNCHANGED <<runningInstances, instances, instanceMutex, pc, cname, ctxIn, inst, conn,
                   result, mainpc, sdTodo, files, calls, cleared, spawnCount, signalCount,
                   ghost, cmpc>>

\* LoadDone that starts a process for the definition of F before it returns
LoadDoneSpawns ==
    /\ cmpc = "load"
    /\ definitionFiles = <<>>
    /\ cmpc' = "ready"
    /\ loadedFiles' = <<>>
    /\ IF "F" \in DOMAIN connectorDefinitions
       THEN /\ instances' =
                 Append(instances,
                        [name |-> "F", port |-> connectorDefinitions["F"].defaultPort,
                         mu |-> Free, alive |-> TRUE, listening |-> FALSE, exited |-> FALSE,
                         orphans |-> 0, lost |-> <<>>, waited |-> FALSE])
            /\ runningInstances' = [runningInstances EXCEPT !["F"] = Len(instances) + 1]
            /\ spawnCount' = [spawnCount EXCEPT !["F"] = @ + 1]
       ELSE UNCHANGED <<instances, runningInstances, spawnCount>>
    /\ UNCHANGED <<defaultConfig, instanceMutex, pc, cname, ctxIn, inst, conn, result,
                   mainpc, sdTodo, files, calls, cleared, signalCount, ghost,
                   definitionFiles, connectorDefinitions>>

\* return cm, nil
LoadDone ==
    /\ cmpc = "load"
    /\ definitionFiles = <<>>
    /\ cmpc' = "ready"
    /\ loadedFiles' = <<>>
    /\ UNCHANGED <<defaultConfig, runningInstances, instances, instanceMutex, pc, cname,
                   ctxIn, inst, conn, result, mainpc, sdTodo, files, calls, cleared,
                   spawnCount, signalCount, ghost, definitionFiles, connectorDefinitions>>

---------------------------------------------------------------------------
(* ConnectorManager.Invoke, by caller c *)

\* the call: the arguments are bound and getOrStartInstance is entered
InvokeBegin(c, in) ==
    /\ cmpc = "ready"
    /\ pc[c] = "idle"
    /\ calls < MaxCalls
    /\ \E name \in in.names, ctx \in in.contexts[c] :
          /\ cname' = [cname EXCEPT ![c] = name]
          /\ ctxIn' = [ctxIn EXCEPT ![c] = ctx]
          /\ ghost' = [ghost EXCEPT ![c] =
                         [NoGhost EXCEPT
                            !.deadAtCall = IF Tracked(name) # 0 /\ ~instances[Tracked(name)].alive
                                           THEN Tracked(name) ELSE 0,
                            !.afterSpawnError =
                                /\ Tracked(name) = 0
                                /\ \E d \in Callers :
                                      /\ pc[d] = "done" /\ cname[d] = name
                                      /\ result[d][1].err = "spawn"]]
    /\ pc' = [pc EXCEPT ![c] = "lookup"]
    /\ calls' = calls + 1
    /\ UNCHANGED <<defaultConfig, runningInstances, instances, instanceMutex, inst, conn,
                   result, mainpc, sdTodo, files, cleared, spawnCount, signalCount,
                   loaderVars>>

\* Lookup that does not wait for the table lock
LookupIgnoresLock(c) ==
    /\ pc[c] = "lookup"
    /\ inst' = [inst EXCEPT ![c] = Tracked(cname[c])]
    /\ pc' = [pc EXCEPT ![c] = "check"]
    /\ UNCHANGED <<defaultConfig, runningInstances, instances, instanceMutex, cname, ctxIn,
                   conn, result, mainpc, sdTodo, files, calls, loaderVars, cleared, spawnCount,
                   signalCount, ghost>>

\* getOrStartInstance, the lookup under the read lock
Lookup(c) ==
    /\ pc[c] = "lookup"
    /\ instanceMutex = Free
    /\ inst' = [inst EXCEPT ![c] = Tracked(cname[c])]
    /\ pc' = [pc EXCEPT ![c] = "check"]
    /\ UNCHANGED <<defaultConfig, runningInstances, instances, instanceMutex, cname, ctxIn,
                   conn, result, mainpc, sdTodo, files, calls, loaderVars, cleared, spawnCount,
                   signalCount, ghost>>

\* getOrStartInstance, the check of the instance found, made without the lock:
\* return it when its process is not known to have exited
CheckExited(c) ==
    /\ pc[c] = "check"
    /\ IF inst[c] # 0 /\ ~Exited(inst[c])
       THEN /\ pc' = [pc EXCEPT ![c] = "guard"]
            /\ inst' = inst
       ELSE /\ pc' = [pc EXCEPT ![c] = "wlock"]
            /\ inst' = [inst EXCEPT ![c] = 0]
    /\ UNCHANGED <<defaultConfig, runningInstances, instances, instanceMutex, cname, ctxIn,
                   conn, result, mainpc, sdTodo, files, calls, loaderVars, cleared, spawnCount,
                   signalCount>>
    /\ ghost' = [ghost EXCEPT ![c].via = IF pc'[c] = "guard" THEN "fast" ELSE ""]

\* getOrStartInstance, the write lock and the double check under it
LockAndRecheck(c) ==
    /\ pc[c] = "wlock"
    /\ instanceMutex = Free
    /\ IF StillRunning(cname[c])
       THEN \* another goroutine started it: return it, the deferred Unlock runs
            /\ inst' = [inst EXCEPT ![c] = Tracked(cname[c])]
            /\ pc' = [pc EXCEPT ![c] = "guard"]
            /\ instanceMutex' = Free
       ELSE /\ instanceMutex' = c
            /\ pc' = [pc EXCEPT ![c] = "start"]
            /\ inst' = inst
    /\ UNCHANGED <<defaultConfig, runningInstances, instances, cname, ctxIn, conn, result,
                   mainpc, sdTodo, files, calls, loaderVars, cleared, spawnCount, signalCount>>
    /\ ghost' = [ghost EXCEPT ![c].via = IF pc'[c] = "guard" THEN "recheck" ELSE ""]

\* the RunningConnectorInstance made for a definition, with its new process
NewInstance(def) ==
    [name |-> def.name, port |-> def.defaultPort, mu |-> Free,
     alive |-> TRUE, listening |-> FALSE, exited |-> FALSE, orphans |-> 0,
     lost |-> <<>>, waited |-> FALSE]

\* NothingRecorded that records the process that failed to start
FailedInstanceRecorded(c) ==
    /\ instances' =
         Append(instances,
                [NewInstance(connectorDefinitions[cname[c]]) EXCEPT !.alive = FALSE])
    /\ runningInstances' = [runningInstances EXCEPT ![cname[c]] = Len(instances) + 1]
    /\ spawnCount' = spawnCount

\* getOrStartInstance returns the error of os.Stat or cmd.Start before it records
\* an instance
NothingRecorded(c) == UNCHANGED <<runningInstances, instances, spawnCount>>

\* getOrStartInstance under the write lock: resolve the definition, locate and
\* start the executable, record the instance
StartInstance(c) ==
    /\ pc[c] = "start"
    /\ instanceMutex = c
    /\ IF cname[c] \notin DOMAIN connectorDefinitions
       THEN /\ Return(c, ErrorResponse("connector definition for '" \o cname[c] \o "' not found"),
                      "definition")
            /\ instanceMutex' = Free
            /\ UNCHANGED <<runningInstances, instances, spawnCount, ghost>>
       ELSE \E outcome \in SpawnOutcomes :
              IF outcome = "ok"
              THEN /\ instances' =
                        Append(instances, NewInstance(connectorDefinitions[cname[c]]))
                   /\ runningInstances' =
                        [runningInstances EXCEPT ![cname[c]] = Len(instances) + 1]
                   /\ spawnCount' = [spawnCount EXCEPT ![cname[c]] = @ + 1]
                   /\ pc' = [pc EXCEPT ![c] = "sleep"]
                   /\ ghost' =
                        [d \in Callers |->
                            IF d = c THEN [ghost[d] EXCEPT !.starts = @ + 1]
                            ELSE IF cname[d] = cname[c]
                            THEN [ghost[d] EXCEPT !.afterSpawnError = FALSE]
                            ELSE ghost[d]]
                   /\ UNCHANGED <<instanceMutex, inst, result>>
              ELSE /\ Return(c, ErrorResponse(
                                  IF outcome = "noexe"
                                  THEN "connector executable not found"
                                  ELSE "failed to start connector '" \o cname[c] \o "'"),
                             "spawn")
                   /\ instanceMutex' = Free
                   /\ ghost' = [ghost EXCEPT ![c].starts = @ + 1]
                   /\ NothingRecorded(c)
    /\ UNCHANGED <<defaultConfig, cname, ctxIn, conn, mainpc, sdTodo, files, calls,
                   loaderVars, cleared, signalCount>>

\* getOrStartInstance: the sleep is over, return newInstance, the deferred Unlock runs
Ready(c) ==
    /\ pc[c] = "sleep"
    /\ instanceMutex = c
    /\ instanceMutex' = Free
    /\ inst' = [inst EXCEPT ![c] = runningInstances[cname[c]]]
    /\ pc' = [pc EXCEPT ![c] = "guard"]
    /\ UNCHANGED <<defaultConfig, runningInstances, instances, cname, ctxIn, conn, result,
                   mainpc, sdTodo, files, calls, loaderVars, cleared, spawnCount, signalCount>>
    /\ ghost' = [ghost EXCEPT ![c].via = "spawn"]

\* instance.mu.Lock()
AcquireGuard(c) ==
    /\ pc[c] = "guard"
    /\ GuardFree(inst[c])
    /\ instances' = [instances EXCEPT ![inst[c]].mu = c]
    /\ pc' = [pc EXCEPT ![c] = "dial"]
    /\ UNCHANGED <<defaultConfig, runningInstances, instanceMutex, cname, ctxIn, inst, conn,
                   result, mainpc, sdTodo, files, calls, loaderVars, cleared, spawnCount,
                   signalCount, ghost>>

\* ReleaseGuard that closes the connection and leaves instance.mu locked
ReleaseGuardKeepsLock(c) ==
    /\ instances' = instances
    /\ conn' = [conn EXCEPT ![c] = NoConn]

\* ReleaseGuard that unlocks and leaves the connection open
ReleaseGuardLeavesOpen(c) ==
    /\ instances' = [instances EXCEPT ![inst[c]].mu = Free]
    /\ conn' = conn

\* the deferred instance.mu.Unlock() and conn.Close() of caller c
ReleaseGuard(c) ==
    /\ instances' = [instances EXCEPT ![inst[c]].mu = Free]
    /\ conn' = [conn EXCEPT ![c] = NoConn]

\* Dial that dials a second time when the first connection is refused
DialRedials(c) ==
    /\ pc[c] = "dial"
    /\ ghost' = [ghost EXCEPT ![c].dials = @ + 1]
    /\ IF Listeners(instances[inst[c]].port) # {}
       THEN /\ \E p \in Listeners(instances[inst[c]].port) :
                 conn' = [conn EXCEPT ![c] = [NoConn EXCEPT !.open = TRUE, !.proc = p]]
            /\ pc' = [pc EXCEPT ![c] = "send"]
            /\ UNCHANGED <<instances, inst, result>>
       ELSE IF ghost[c].dials = 0
       THEN UNCHANGED <<pc, conn, instances, inst, result>>
       ELSE /\ Return(c, ErrorResponse("failed to connect to connector '" \o cname[c] \o "'"),
                      "connect")
            /\ ReleaseGuard(c)
    /\ UNCHANGED <<defaultConfig, runningInstances, instanceMutex, cname, ctxIn, mainpc,
                   sdTodo, files, calls, loaderVars, cleared, spawnCount, signalCount>>

\* net.DialTimeout to the port of the instance, once
Dial(c) ==
    /\ pc[c] = "dial"
    /\ ghost' = [ghost EXCEPT ![c].dials = @ + 1]
    /\ IF Listeners(instances[inst[c]].port) # {}
       THEN /\ \E p \in Listeners(instances[inst[c]].port) :
                 conn' = [conn EXCEPT ![c] = [NoConn EXCEPT !.open = TRUE, !.proc = p]]
            /\ pc' = [pc EXCEPT ![c] = "send"]
            /\ UNCHANGED <<instances, inst, result>>
       ELSE /\ Return(c, ErrorResponse("failed to connect to connector '" \o cname[c] \o "'"),
                      "connect")
            /\ ReleaseGuard(c)
    /\ UNCHANGED <<defaultConfig, runningInstances, instanceMutex, cname, ctxIn, mainpc,
                   sdTodo, files, calls, loaderVars, cleared, spawnCount, signalCount>>

\* the request of a call
Request(c, op, config, params) ==
    [connectorName |-> cname[c], operationName |-> op, connectorConfig |-> config,
     operationParams |-> params, messageContextIn |-> ctxIn[c]]

\* the deferred Unlock and Close after a request that could not be encoded: the
\* worker, when it lives, is left with a connection that carries no request
ReleaseGuardUnanswered(c) ==
    /\ instances' =
         [instances EXCEPT ![inst[c]].mu = Free,
                           ![conn[c].proc].orphans =
                               IF instances[conn[c].proc].alive THEN @ + 1 ELSE @]
    /\ conn' = [conn EXCEPT ![c] = NoConn]

\* the config merge and encoder.Encode(req).  operationName, the override and the
\* params are arguments of the call that are first read here, so they are drawn here.
\* A request that has no encoding is not written.  A write to a peer that has
\* exited may succeed (it is buffered) or fail.
Send(c, in) ==
    /\ pc[c] = "send"
    /\ ghost' = [ghost EXCEPT ![c].sends = @ + 1]
    /\ \E op \in in.operations, override \in in.overrides, params \in in.params,
          written \in BOOLEAN :
         LET name == instances[inst[c]].name
             current == defaultConfig[name]
             req == Request(c, op, MergeConfig(current, override), params)
         IN  /\ written => EncodableRequest(req)
             /\ ~written => (~EncodableRequest(req) \/ ~instances[conn[c].proc].alive)
             /\ defaultConfig' =
                  [defaultConfig EXCEPT ![name] = ConfigAfterMerge(current, override)]
             /\ IF written
                THEN /\ conn' = [conn EXCEPT ![c].req = Append(@, req),
                                             ![c].override = override]
                     /\ pc' = [pc EXCEPT ![c] = "recv"]
                     /\ UNCHANGED <<instances, inst, result>>
                ELSE /\ Return(c, ErrorResponse("failed to send request to connector '"
                                                \o cname[c] \o "'"), "encode")
                     /\ ReleaseGuardUnanswered(c)
    /\ UNCHANGED <<runningInstances, instanceMutex, cname, ctxIn, mainpc, sdTodo, files,
                   calls, loaderVars, cleared, spawnCount, signalCount>>

\* decoder.Decode(&resp), once: the response when one was written, an error when
\* the peer exited without writing one
Receive(c) ==
    /\ pc[c] = "recv"
    /\ ghost' = [ghost EXCEPT ![c].reads = @ + 1]
    /\ IF conn[c].resp # <<>>
       THEN Return(c, JSONResponse(conn[c].resp[1]), "nil")
       ELSE /\ ~instances[conn[c].proc].alive
            /\ Return(c, ErrorResponse("failed to decode response from connector '"
                                       \o cname[c] \o "'"), "decode")
    /\ ReleaseGuard(c)
    /\ UNCHANGED <<defaultConfig, runningInstances, instanceMutex, cname, ctxIn, mainpc,
                   sdTodo, files, calls, loaderVars, cleared, spawnCount, signalCount>>

\* the caller has read what Invoke returned (main.go logs it) and goes on
Returned(c) ==
    /\ pc[c] = "done"
    /\ pc' = [pc EXCEPT ![c] = "idle"]
    /\ result' = [result EXCEPT ![c] = NoResult]
    /\ cname' = [cname EXCEPT ![c] = ""]
    /\ ctxIn' = [ctxIn EXCEPT ![c] = ZeroMessageContext]
    /\ UNCHANGED <<defaultConfig, runningInstances, instances, instanceMutex, inst, conn,
                   mainpc, sdTodo, files, calls, loaderVars, cleared, spawnCount, signalCount>>
    /\ ghost' = [ghost EXCEPT ![c] = NoGhost]

---------------------------------------------------------------------------
(* The worker process of instance p *)

\* main of the worker: net.Listen on its port; log.Fatalf when the port is taken
WorkerListen(p) ==
    /\ p \in DOMAIN instances
    /\ instances[p].alive /\ ~instances[p].listening
    /\ IF Listeners(instances[p].port) = {}
       THEN instances' = [instances EXCEPT ![p].listening = TRUE]
       ELSE instances' = [instances EXCEPT ![p].alive = FALSE]
    /\ UNCHANGED <<defaultConfig, runningInstances, instanceMutex, pc, cname, ctxIn, inst,
                   conn, result, mainpc, sdTodo, files, calls, loaderVars, cleared, spawnCount,
                   signalCount, ghost>>

\* HandleConnection that encodes its response twice
HandleConnectionTwice(c) ==
    /\ conn[c].open /\ conn[c].req # <<>> /\ conn[c].resp = <<>>
    /\ instances[conn[c].proc].alive
    /\ \E ioOk \in BOOLEAN :
         LET out == Dispatch(JSONRequest(conn[c].req[1]), files, ioOk)
         IN  /\ conn' = [conn EXCEPT ![c].resp = Append(Append(@, out[1]), out[1])]
             /\ files' = out[2]
    /\ UNCHANGED <<defaultConfig, runningInstances, instances, instanceMutex, pc, cname,
                   ctxIn, inst, result, mainpc, sdTodo, calls, loaderVars, cleared,
                   spawnCount, signalCount, ghost>>

\* handleConnection on the connection of caller c: decode one request, dispatch,
\* encode one response
HandleConnection(c) ==
    /\ conn[c].open /\ conn[c].req # <<>> /\ conn[c].resp = <<>>
    /\ instances[conn[c].proc].alive
    /\ \E ioOk \in BOOLEAN :
         LET out == Dispatch(JSONRequest(conn[c].req[1]), files, ioOk)
         IN  /\ conn' = [conn EXCEPT ![c].resp = Append(@, out[1])]
             /\ files' = out[2]
    /\ UNCHANGED <<defaultConfig, runningInstances, instances, instanceMutex, pc, cname,
                   ctxIn, inst, result, mainpc, sdTodo, calls, loaderVars, cleared, spawnCount,
                   signalCount, ghost>>

\* handleConnection on a connection that the caller closed without a request:
\* Decode fails with EOF, the failure response is encoded to the closed connection
\* (the error of that Encode is dropped) and the handler returns
HandleClosedConnection(p) ==
    /\ p \in DOMAIN instances
    /\ instances[p].alive /\ instances[p].orphans > 0
    /\ instances' = [instances EXCEPT ![p].orphans = @ - 1,
                                      ![p].lost = <<DecodeFailureResponse("EOF")>>]
    /\ UNCHANGED <<defaultConfig, runningInstances, instanceMutex, pc, cname, ctxIn, inst,
                   conn, result, mainpc, sdTodo, files, calls, loaderVars, cleared,
                   spawnCount, signalCount, ghost>>

\* the worker process exits on its own (a crash, or a kill from outside)
ProcessExit(p) ==
    /\ p \in DOMAIN instances
    /\ instances[p].alive
    /\ instances' = [instances EXCEPT ![p].alive = FALSE, ![p].listening = FALSE,
                                      ![p].orphans = 0, ![p].lost = <<>>]
    /\ UNCHANGED <<defaultConfig, runningInstances, instanceMutex, pc, cname, ctxIn, inst,
                   conn, result, mainpc, sdTodo, files, calls, loaderVars, cleared, spawnCount,
                   signalCount, ghost>>

---------------------------------------------------------------------------
(* ConnectorManager.ShutdownAll, by Main *)

\* cm.instanceMutex.Lock(); the range loop is over the entries of the table
ShutdownLock ==
    /\ cmpc = "ready"
    /\ mainpc = "idle"
    /\ instanceMutex = Free
    /\ instanceMutex' = Main
    /\ sdTodo' = {n \in Names : runningInstances[n] # 0}
    /\ mainpc' = "loop"
    /\ UNCHANGED <<defaultConfig, runningInstances, instances, pc, cname, ctxIn, inst, conn,
                   result, files, calls, loaderVars, cleared, spawnCount, signalCount, ghost>>

\* what Signal(os.Interrupt) comes to: the process exits on it, the signal cannot
\* be delivered and Kill ends the process, or the process does not exit on it
SignalOutcomes == {"exits", "killed", "ignored"}

\* one iteration of the loop: Signal(os.Interrupt) to the process, Kill when the
\* signal fails, and Cmd.Wait(), which returns when the process has exited and sets
\* ProcessState; it does not return while the process lives
ShutdownTerminate(n) ==
    /\ mainpc = "loop"
    /\ n \in sdTodo
    /\ signalCount' = signalCount + 1
    /\ \E outcome \in SignalOutcomes :
         IF outcome # "ignored" \/ ~instances[runningInstances[n]].alive
         THEN /\ instances' = [instances EXCEPT ![runningInstances[n]].alive = FALSE,
                                                ![runningInstances[n]].listening = FALSE,
                                                ![runningInstances[n]].exited = TRUE,
                                                ![runningInstances[n]].orphans = 0,
                                                ![runningInstances[n]].lost = <<>>]
              /\ sdTodo' = sdTodo \ {n}
              /\ mainpc' = mainpc
         ELSE /\ instances' = [instances EXCEPT ![runningInstances[n]].waited = TRUE]
              /\ sdTodo' = sdTodo
              /\ mainpc' = "wait"
    /\ UNCHANGED <<defaultConfig, runningInstances, instanceMutex, pc, cname, ctxIn, inst,
                   conn, result, files, calls, loaderVars, cleared, spawnCount, ghost>>

\* ShutdownWait that returns while the process still runs
ShutdownWaitReturnsEarly(n) ==
    /\ mainpc = "wait"
    /\ n \in sdTodo
    /\ instances[runningInstances[n]].waited
    /\ instances' = [instances EXCEPT ![runningInstances[n]].exited = TRUE,
                                      ![runningInstances[n]].waited = FALSE]
    /\ sdTodo' = sdTodo \ {n}
    /\ mainpc' = "loop"
    /\ UNCHANGED <<defaultConfig, runningInstances, instanceMutex, pc, cname, ctxIn, inst,
                   conn, result, files, calls, loaderVars, cleared, spawnCount, signalCount,
                   ghost>>

\* Cmd.Wait() returns: the process that did not exit on the signal has exited
ShutdownWait(n) ==
    /\ mainpc = "wait"
    /\ n \in sdTodo
    /\ instances[runningInstances[n]].waited
    /\ ~instances[runningInstances[n]].alive
    /\ instances' = [instances EXCEPT ![runningInstances[n]].exited = TRUE,
                                      ![runningInstances[n]].waited = FALSE]
    /\ sdTodo' = sdTodo \ {n}
    /\ mainpc' = "loop"
    /\ UNCHANGED <<defaultConfig, runningInstances, instanceMutex, pc, cname, ctxIn, inst,
                   conn, result, files, calls, loaderVars, cleared, spawnCount, signalCount,
                   ghost>>

\* ShutdownClear that leaves the table as it is
ShutdownClearKeepsTable ==
    /\ mainpc = "loop"
    /\ sdTodo = {}
    /\ runningInstances' = runningInstances
    /\ instanceMutex' = Free
    /\ mainpc' = "idle"
    /\ cleared' = TRUE
    /\ UNCHANGED <<defaultConfig, instances, pc, cname, ctxIn, inst, conn, result, sdTodo,
                   files, calls, loaderVars, spawnCount, signalCount, ghost>>

\* cm.runningInstances = make(map...) and the deferred Unlock
ShutdownClear ==
    /\ mainpc = "loop"
    /\ sdTodo = {}
    /\ runningInstances' = [n \in Names |-> 0]
    /\ instanceMutex' = Free
    /\ mainpc' = "idle"
    /\ cleared' = TRUE
    /\ UNCHANGED <<defaultConfig, instances, pc, cname, ctxIn, inst, conn, result, sdTodo,
                   files, calls, loaderVars, spawnCount, signalCount, ghost>>

---------------------------------------------------------------------------
(* The specification *)

\* the steps of the callers, which draw their inputs from in, and of the workers
InvokeSteps(in) ==
    \/ \E c \in in.callers : InvokeBegin(c, in)
    \/ \E c \in in.callers : Lookup(c)
    \/ \E c \in in.callers : CheckExited(c)
    \/ \E c \in in.callers : LockAndRecheck(c)
    \/ \E c \in in.callers : StartInstance(c)
    \/ \E c \in in.callers : Ready(c)
    \/ \E c \in in.callers : AcquireGuard(c)
    \/ \E c \in in.callers : Dial(c)
    \/ \E c \in in.callers : Send(c, in)
    \/ \E c \in in.callers : Receive(c)
    \/ \E c \in in.callers : Returned(c)
    \/ \E c \in in.callers : HandleConnection(c)
    \/ \E p \in DOMAIN instances : WorkerListen(p)

\* the steps of the program: the callers and workers, a worker that exits, and
\* Main in ShutdownAll
Step(in) ==
    \/ InvokeSteps(in)
    \/ \E p \in DOMAIN instances : ProcessExit(p)
    \/ ShutdownLock
    \/ \E n \in Names : ShutdownTerminate(n)
    \/ \E n \in Names : ShutdownWait(n)
    \/ ShutdownClear

\* two concurrent callers
Next == Step(ConcurrentInputs)
Spec == Init /\ [][Next]_vars

\* one caller, all inputs
NextSeq == Step(SequentialInputs) \/ \E p \in DOMAIN instances : HandleClosedConnection(p)
SpecSeq == Init /\ [][NextSeq]_vars

\* NewConnectorManager on any directory, then one caller
NextLoad == ReadDir \/ LoadFile \/ LoadDone \/ Step(LoadInputs)
SpecLoad == InitLoad /\ [][NextLoad]_vars

\* all the callers on one connector name whose worker answers every connection
\* it accepts: no worker exits, ShutdownAll is not called
NextSameName == InvokeSteps(SameNameInputs)

\* the scheduling of the Go runtime: a goroutine that can run does run, and a
\* worker that has a request handles it
Fairness ==
    \A c \in Callers :
        /\ WF_vars(Lookup(c) \/ CheckExited(c) \/ LockAndRecheck(c) \/ StartInstance(c)
                   \/ Ready(c) \/ AcquireGuard(c) \/ Dial(c)
                   \/ Send(c, SameNameInputs) \/ Receive(c))
        /\ WF_vars(HandleConnection(c))

FairSpec == Init /\ [][NextSameName]_vars /\ Fairness

\* two callers on the connectors F and G; no worker exits, ShutdownAll is not called
NextTwoNames == InvokeSteps(TwoNameInputs)

\* the scheduling of the Go runtime for the callers, and a worker of G that
\* handles every request it has; the worker of F may never answer
FairnessTwoNames ==
    \A c \in Callers :
        /\ WF_vars(Lookup(c) \/ CheckExited(c) \/ LockAndRecheck(c) \/ StartInstance(c)
                   \/ Ready(c) \/ AcquireGuard(c) \/ Dial(c)
                   \/ Send(c, TwoNameInputs) \/ Receive(c))
        /\ WF_vars(cname[c] = "G" /\ HandleConnection(c))

FairSpecTwoNames == Init /\ [][NextTwoNames]_vars /\ FairnessTwoNames

\* one caller, workers that may exit, and ShutdownAll
NextShutdown == Step(LoadInputs)

\* the scheduling of the Go runtime for the callers and for Main once it is in
\* ShutdownAll, and workers that handle every request they have; nothing makes a
\* worker exit, and nothing makes Main call ShutdownAll.  The locks of sync do
\* not starve a waiter: one that finds the lock free again and again gets it.
FairnessShutdown ==
    /\ \A c \in Callers :
          /\ SF_vars(Lookup(c)) /\ SF_vars(LockAndRecheck(c)) /\ SF_vars(AcquireGuard(c))
          /\ WF_vars(CheckExited(c) \/ StartInstance(c) \/ Ready(c) \/ Dial(c)
                     \/ Send(c, LoadInputs) \/ Receive(c))
          /\ WF_vars(HandleConnection(c))
    /\ WF_vars((\E n \in Names : ShutdownTerminate(n)) \/ (\E n \in Names : ShutdownWait(n))
               \/ ShutdownClear)

FairSpecShutdown == Init /\ [][NextShutdown]_vars /\ FairnessShutdown

---------------------------------------------------------------------------
(* Properties *)

\* caller c holds an instance that getOrStartInstance returned
HoldsInstance(c) == pc[c] \in {"guard", "dial", "send", "recv"}
\* caller c is between instance.mu.Lock() and the deferred Unlock
InExchange(c) == pc[c] \in {"dial", "send", "recv"}
AllAbsent == \A n \in Names : runningInstances[n] = 0
\* what the last Invoke of caller c returned
LastResult(c) == result[c][1]

\* C1: as long as no ShutdownAll has returned, at most one process is
\* spawned per connector name, and every caller that getOrStartInstance gave an
\* instance of that name holds the one tracked instance, spawned exactly once.
C1_SingleSpawn ==
    ~cleared =>
        \A n \in Names :
            /\ spawnCount[n] <= 1
            /\ \A c \in Callers :
                  (cname[c] = n /\ HoldsInstance(c)) =>
                      /\ spawnCount[n] = 1
                      /\ inst[c] # 0
                      /\ inst[c] = runningInstances[n]

\* two callers raced for the same name: one spawned, the other found the instance
\* in the double check
C1_Witness ==
    /\ ~cleared /\ mainpc = "idle"
    /\ HoldsInstance(1) /\ HoldsInstance(2)
    /\ cname[1] = cname[2]
    /\ ghost[1].via = "spawn" /\ ghost[2].via = "recheck"
    /\ inst[1] = inst[2] /\ inst[1] # 0
    /\ spawnCount[cname[1]] = 1

\* C2, as stated: at most one Invoke per connector name is in its exchange phase.
C2_OnePerName ==
    \A n \in Names : Cardinality({c \in Callers : InExchange(c) /\ cname[c] = n}) <= 1

\* C2, amended: at most one Invoke per instance is in its exchange phase, and at
\* most one per connector name as long as no ShutdownAll has returned.
C2_OnePerInstance ==
    /\ \A i \in DOMAIN instances :
          Cardinality({c \in Callers : InExchange(c) /\ inst[c] = i}) <= 1
    /\ ~cleared => C2_OnePerName

\* one caller is in its exchange, the other waits for the guard of the same instance
C2_Witness ==
    /\ InExchange(1) /\ pc[2] = "guard"
    /\ inst[1] = inst[2]
    /\ instances[inst[1]].mu = 1

\* C3: every Invoke that was called returns, and a response it returns without
\* error carries the messageId of its own request.
C3_AllReturnOwnResponse ==
    /\ \A c \in Callers : (pc[c] = "lookup") ~> (pc[c] = "done")
    /\ [](\A c \in Callers :
            (pc[c] = "done" /\ LastResult(c).err = "nil") =>
                LastResult(c).resp.messageContextOut.messageId = MessageId(c))

\* both callers have returned from an Invoke of the same name with the response
\* of the worker
C3_Witness ==
    /\ pc[1] = "done" /\ pc[2] = "done"
    /\ LastResult(1).name = LastResult(2).name
    /\ LastResult(1).err = "nil" /\ LastResult(2).err = "nil"
    /\ LastResult(1).resp.messageContextOut.messageId = "m1"
    /\ LastResult(2).resp.messageContextOut.messageId = "m2"

\* C4, as stated: when Invoke fails in definition resolution, process start or
\* transport, the response has messageContextOut equal to messageContextIn.
C4_ErrorEchoesContext ==
    \A c \in Callers :
        (pc[c] = "done" /\ LastResult(c).err # "nil") =>
            LastResult(c).resp.messageContextOut = LastResult(c).ctxIn

\* C5: a non-nil error comes with success=false and a non-empty errorMessage; a nil
\* error comes with the response decoded from what the worker wrote.
C5_ErrorPairs ==
    \A c \in Callers :
        pc[c] = "done" =>
            /\ LastResult(c).err # "nil" =>
                  /\ ~LastResult(c).resp.success
                  /\ LastResult(c).resp.errorMessage # ""
            /\ LastResult(c).err = "nil" =>
                  /\ LastResult(c).wire # <<>>
                  /\ LastResult(c).resp = JSONResponse(LastResult(c).wire[1])

\* an Invoke has returned a transport error
C5_Witness ==
    \E c \in Callers : pc[c] = "done" /\ LastResult(c).err = "decode"

\* the worker reported a failure of the operation on the connection of the call
BusinessFailure(r) == r.wire # <<>> /\ ~r.wire[1].success
\* the call failed, in any way of the taxonomy
Failed(r) == r.err # "nil" \/ BusinessFailure(r)

\* C6, as stated: every failure is returned as a success=false response together
\* with a non-nil error.
C6_EveryFailurePaired ==
    \A c \in Callers :
        (pc[c] = "done" /\ Failed(LastResult(c))) =>
            /\ ~LastResult(c).resp.success
            /\ LastResult(c).err # "nil"

\* C6, amended: every failure is returned as a success=false response; the error
\* is non-nil for a definition, spawn or transport failure and nil for a business
\* failure.
C6_FailureSignals ==
    \A c \in Callers :
        (pc[c] = "done" /\ Failed(LastResult(c))) =>
            /\ ~LastResult(c).resp.success
            /\ BusinessFailure(LastResult(c)) <=> LastResult(c).err = "nil"

\* an Invoke has returned a business failure
C6_Witness ==
    \E c \in Callers :
        pc[c] = "done" /\ BusinessFailure(LastResult(c)) /\ ~LastResult(c).resp.success

\* the effective config the data model asks for: override keys win, the other
\* keys keep the default, nothing else
EffectiveConfig(default, override) ==
    IF override.nil THEN default
    ELSE MkMap(override.kv \cup {p \in default.kv : p[1] \notin Keys(override)})

\* C7, as stated: the connectorConfig of a request that was sent is the override
\* over the loaded defaultConfig of the connector.
C7_ConfigMerge ==
    \A c \in Callers :
        conn[c].req # <<>> =>
            conn[c].req[1].connectorConfig =
                EffectiveConfig(LoadedDefinitions[conn[c].req[1].connectorName].defaultConfig,
                                conn[c].override)

\* C8, as stated: the defaultConfig of every definition is the one that was loaded.
C8_DefinitionsImmutable ==
    \A n \in Names : defaultConfig[n] = LoadedDefinitions[n].defaultConfig

\* C9: the step in which ShutdownAll returns leaves the table empty, and a
\* ShutdownAll that runs on an empty table sends no signal and leaves it empty.
C9_ShutdownIdempotent ==
    [][/\ (mainpc = "loop" /\ mainpc' = "idle") => AllAbsent'
       /\ (mainpc = "loop" /\ AllAbsent) => (signalCount' = signalCount /\ AllAbsent')]_vars

\* a second ShutdownAll runs on the table the first one emptied after signalling
\* a process
C9_Witness ==
    /\ cleared /\ mainpc = "loop"
    /\ signalCount = 1
    /\ AllAbsent /\ sdTodo = {}

\* C10, as stated: a call made when the process of the tracked instance has
\* exited does not get that instance.
C10_RestartAfterExit ==
    \A c \in Callers :
        (ghost[c].deadAtCall # 0 /\ HoldsInstance(c)) => inst[c] # ghost[c].deadAtCall

IsRead(r) == r.req # <<>> /\ r.req[1].operationName = "read"
ReadPath(r) ==
    Join(BaseDir(r.req[1]), AsString(r.req[1].operationParams, "filename")[1])
ReadOfMissingFile(r) ==
    /\ IsRead(r) /\ r.err = "nil"
    /\ AsString(r.req[1].operationParams, "filename")[2]
    /\ \A f \in files : f[1] # ReadPath(r)

\* C12, as stated: a read of a file that does not exist returns success=false, a
\* non-empty errorMessage and an empty payload, for any input context.
C12_MissingReadEmptyPayload ==
    \A c \in Callers :
        (pc[c] = "done" /\ ReadOfMissingFile(LastResult(c))) =>
            /\ ~LastResult(c).resp.success
            /\ LastResult(c).resp.errorMessage # ""
            /\ LastResult(c).resp.messageContextOut.payload = NilBytes

\* C12, amended: a read of a file that does not exist returns success=false, a
\* non-empty errorMessage and the payload of the input context, which is empty
\* only when the input context has none.
C12_MissingReadEchoesPayload ==
    \A c \in Callers :
        (pc[c] = "done" /\ ReadOfMissingFile(LastResult(c))) =>
            /\ ~LastResult(c).resp.success
            /\ LastResult(c).resp.errorMessage # ""
            /\ LastResult(c).resp.messageContextOut.payload = LastResult(c).ctxIn.payload

\* a read of a missing file has returned, for a context that carries a payload
C12_Witness ==
    \E c \in Callers :
        /\ pc[c] = "done" /\ ReadOfMissingFile(LastResult(c))
        /\ LastResult(c).ctxIn.payload = Bytes("<data/>")
        /\ LastResult(c).resp.messageContextOut.payload = Bytes("<data/>")
        /\ ~LastResult(c).resp.success

\* the call of caller c is for a name that has no definition
Undefined(c) == pc[c] # "idle" /\ cname[c] \notin DOMAIN connectorDefinitions

\* C13: an Invoke for a name without definition never gets an instance and
\* returns the definition-not-found error with success=false, and no step of it
\* spawns a process or changes the instance table; so it is for every name when
\* the store is empty.
C13_NoDefinitionFails ==
    /\ [](\A c \in Callers :
            Undefined(c) =>
                /\ ~HoldsInstance(c) /\ pc[c] # "sleep"
                /\ pc[c] = "done" =>
                      /\ LastResult(c).err = "definition"
                      /\ ~LastResult(c).resp.success
                      /\ LastResult(c).resp.errorMessage =
                            "connector definition for '" \o cname[c] \o "' not found")
    /\ [][\A c \in Callers :
            (Undefined(c) /\ pc'[c] # pc[c]) =>
                /\ runningInstances' = runningInstances
                /\ instances' = instances
                /\ spawnCount' = spawnCount]_vars

\* a manager that was built with an empty store has failed an
\* Invoke of F
C13_Witness ==
    /\ cmpc = "ready" /\ DOMAIN connectorDefinitions = {}
    /\ pc[1] = "done" /\ cname[1] = "F"
    /\ LastResult(1).err = "definition"
    /\ instances = <<>>

\* a record that supplies what a definition must have: it is a readable .json
\* file that holds a JSON object with a name, a port and a config of the right
\* types (the executable path is not modelled)
WellFormed(e) ==
    /\ e.ext = ".json" /\ e.readable /\ e.doc.valid
    /\ AsString(e.doc.fields, "name")[2]
    /\ HasKey(e.doc.fields, "default_port") /\ Get(e.doc.fields, "default_port")[1] = "number"
    /\ HasKey(e.doc.fields, "default_config")
    /\ Get(e.doc.fields, "default_config")[1] = "object"

\* the store that holds, of the records that pass keep, the last one of each name
LastOfEachName(listing, keep(_)) ==
    LET kept == {i \in 1..Len(listing) : keep(listing[i])}
        defOf(i) == Unmarshal(listing[i].doc)[1]
        last(n) == CHOOSE i \in kept :
                      /\ defOf(i).name = n
                      /\ \A j \in kept : defOf(j).name = n => j <= i
    IN  [n \in {defOf(i).name : i \in kept} |-> defOf(last(n))]

\* C14, as stated: when the loop of NewConnectorManager is over, the store holds
\* exactly the well-formed records, the last one of each name.
C14_LookupWellFormed ==
    (cmpc = "load" /\ definitionFiles = <<>>) =>
        connectorDefinitions = LastOfEachName(loadedFiles, WellFormed)

\* what the loop keeps: the last record of each name among those that parse
StoreKeepsParsedRecords ==
    cmpc = "load" => connectorDefinitions = LastOfEachName(loadedFiles, Loads)

\* C15: when the worker wrote a response on the connection of a call, Invoke
\* returns that response, with the same success flag, messageContextOut and
\* errorMessage, and a nil error.
C15_ResponseUnchanged ==
    \A c \in Callers :
        (pc[c] = "done" /\ LastResult(c).wire # <<>>) =>
            /\ LastResult(c).err = "nil"
            /\ LastResult(c).resp.success = LastResult(c).wire[1].success
            /\ LastResult(c).resp.messageContextOut = LastResult(c).wire[1].messageContextOut
            /\ LastResult(c).resp.errorMessage = LastResult(c).wire[1].errorMessage

\* Invoke has returned the response of a create that the worker carried out with
\* the default config of F
C15_Witness ==
    \E c \in Callers :
        /\ pc[c] = "done" /\ LastResult(c).wire # <<>>
        /\ LastResult(c).resp.success
        /\ <<"file.write.path", StrV("data/t.txt")>>
              \in LastResult(c).resp.messageContextOut.properties.kv
        /\ <<"retries", FloatV(3)>> \in LastResult(c).resp.messageContextOut.properties.kv

\* caller c is in getOrStartInstance under the write lock, past the double check
Starting(c) == pc[c] = "start" /\ instanceMutex = c

\* C16: no process exists before NewConnectorManager has returned, and a step in
\* which a process is spawned is a step of an Invoke for the name of that process,
\* taken when the table has no instance of the name or one that has exited.
C16_LazyStart ==
    /\ [](cmpc # "ready" => (instances = <<>> /\ \A n \in Names : spawnCount[n] = 0))
    /\ [][(Len(instances') # Len(instances) \/ spawnCount' # spawnCount) =>
              \E c \in Callers :
                  /\ Starting(c) /\ pc'[c] = "sleep"
                  /\ (Tracked(cname[c]) = 0 \/ Exited(Tracked(cname[c])))
                  /\ instances' = Append(instances, instances'[Len(instances')])
                  /\ instances'[Len(instances')].name = cname[c]
                  /\ spawnCount' = [spawnCount EXCEPT ![cname[c]] = @ + 1]]_vars

\* the manager was built, an Invoke of F has spawned the first process, and it is
\* the only one
C16_Witness ==
    /\ cmpc = "ready"
    /\ pc[1] = "sleep" /\ cname[1] = "F"
    /\ Len(instances) = 1 /\ instances[1].name = "F"
    /\ spawnCount["F"] = 1

TransportErrors == {"connect", "encode", "decode"}
\* the step in which caller c returns from Invoke
Returns(c) == pc[c] # "done" /\ pc'[c] = "done"
\* the processes are as they were: none started, ended or marked as exited
ProcessesUnchanged ==
    /\ Len(instances') = Len(instances)
    /\ \A i \in DOMAIN instances :
          /\ instances'[i].alive = instances[i].alive
          /\ instances'[i].exited = instances[i].exited
          /\ instances'[i].listening = instances[i].listening

C18_SpawnFailureNoRetry ==
    /\ [][\A c \in Callers :
            (Returns(c) /\ result'[c][1].err = "spawn") =>
                /\ ghost'[c].starts = 1
                /\ ~result'[c][1].resp.success
                /\ runningInstances' = runningInstances /\ runningInstances'[cname[c]] = 0
                /\ instances' = instances /\ spawnCount' = spawnCount]_vars
    /\ [](\A c \in Callers :
            /\ ghost[c].starts <= 1
            /\ (ghost[c].afterSpawnError /\ (HoldsInstance(c) \/ pc[c] \in {"sleep", "done"}))
                  => ghost[c].starts = 1)

\* caller 1 has returned a spawn error for a name, and caller 2, which began after
\* that, has started the process of the name
C18_Witness ==
    /\ pc[1] = "done" /\ LastResult(1).err = "spawn"
    /\ cname[2] = cname[1] /\ ghost[2].afterSpawnError
    /\ pc[2] = "sleep" /\ ghost[2].starts = 1
    /\ Tracked(cname[2]) # 0 /\ spawnCount[cname[2]] = 1

\* C19: a caller that is not between instance.mu.Lock() and the return of its
\* Invoke holds the guard of no instance and has no connection open.
C19_GuardAndConnectionReleased ==
    \A c \in Callers :
        ~InExchange(c) =>
            /\ \A i \in DOMAIN instances : instances[i].mu # c
            /\ ~conn[c].open

\* caller 1 has returned from an exchange that failed, and caller 2 has taken the
\* guard of the same instance after it
C19_Witness ==
    /\ pc[1] = "done" /\ LastResult(1).err \in TransportErrors
    /\ ghost[1].dials = 1
    /\ InExchange(2) /\ cname[2] = cname[1]
    /\ instances[inst[2]].mu = 2 /\ spawnCount[cname[2]] = 1

\* C20, as stated: every connection that a call opened has carried exactly one
\* request when the call returns.
C20_ExactlyOneRequest ==
    \A c \in Callers :
        (pc[c] = "done" /\ ghost[c].dials = 1 /\ LastResult(c).err # "connect") =>
            Len(LastResult(c).req) = 1

\* C20, amended: a call dials, encodes and decodes at most once; its connection
\* carries at most one request and at most one response, the response after the
\* request; a call that waits for the response has written its request; a call
\* that has returned has closed its connection, after one Encode that wrote one
\* request, or none when it returns the encode error, and after one Decode when
\* it returns the response of the worker.
C20_OneRequestOneResponse ==
    \A c \in Callers :
        /\ ghost[c].dials <= 1 /\ ghost[c].sends <= 1 /\ ghost[c].reads <= 1
        /\ Len(conn[c].req) <= 1
        /\ Len(conn[c].resp) <= Len(conn[c].req)
        /\ conn[c].open => ghost[c].dials = 1
        /\ pc[c] = "recv" => (ghost[c].sends = 1 /\ Len(conn[c].req) = 1)
        /\ pc[c] = "done" =>
              /\ ~conn[c].open
              /\ Len(LastResult(c).req) <= 1 /\ Len(LastResult(c).wire) <= 1
              /\ LastResult(c).err \in {"nil", "encode", "decode"} =>
                    (ghost[c].dials = 1 /\ ghost[c].sends = 1)
              /\ LastResult(c).err = "encode" => Len(LastResult(c).req) = 0
              /\ LastResult(c).err = "decode" =>
                    (Len(LastResult(c).req) = 1 /\ Len(LastResult(c).wire) = 0)
              /\ LastResult(c).err = "nil" =>
                    /\ ghost[c].reads = 1
                    /\ Len(LastResult(c).req) = 1 /\ Len(LastResult(c).wire) = 1

\* a call has returned the encode error for params that have no encoding: it
\* dialled and called Encode once, wrote no request, and the worker, which lives,
\* is left with the closed connection
C20_Witness ==
    \E c \in Callers :
        /\ pc[c] = "done" /\ LastResult(c).err = "encode"
        /\ ghost[c].dials = 1 /\ ghost[c].sends = 1 /\ ghost[c].reads = 0
        /\ Len(LastResult(c).req) = 0
        /\ conn[c] = NoConn
        /\ \E p \in DOMAIN instances : instances[p].alive /\ instances[p].orphans = 1

\* the lifecycle state of a connector name in the books of the manager
Lifecycle(n) ==
    IF \E c \in Callers : cname[c] = n /\ pc[c] \in {"start", "sleep"} THEN "Starting"
    ELSE IF runningInstances[n] = 0 THEN "Absent"
    ELSE IF Exited(runningInstances[n]) THEN "Exited"
    ELSE "Running"

LifecycleTransitions ==
    {<<"Absent", "Starting">>, <<"Starting", "Running">>, <<"Starting", "Absent">>,
     <<"Running", "Exited">>, <<"Exited", "Starting">>,
     <<"Running", "Absent">>, <<"Exited", "Absent">>}

\* C21: the lifecycle state of a name changes only along the transitions of the
\* state machine, and a name is in Starting only while the caller that starts it
\* holds the exclusive lock of the table.
C21_LifecycleTransitions ==
    /\ [][\A n \in Names :
            Lifecycle(n)' # Lifecycle(n) =>
                <<Lifecycle(n), Lifecycle(n)'>> \in LifecycleTransitions]_vars
    /\ [](\A n \in Names :
            Lifecycle(n) = "Starting" =>
                /\ instanceMutex \in Callers
                /\ cname[instanceMutex] = n
                /\ pc[instanceMutex] \in {"start", "sleep"})

\* F runs for the second time: it was started, shut down and started again
C21_Witness ==
    /\ Lifecycle("F") = "Running"
    /\ cleared /\ spawnCount["F"] = 2
    /\ Lifecycle("G") = "Absent"

\* C22: an Invoke of G returns whether or not the worker of F ever answers, and
\* a caller waits for a guard only behind an exchange on the same instance.
C22_DifferentNamesIndependent ==
    /\ \A c \in Callers : (pc[c] = "lookup" /\ cname[c] = "G") ~> (pc[c] = "done")
    /\ [](\A c \in Callers :
            (pc[c] = "guard" /\ ~GuardFree(inst[c])) =>
                \E d \in Callers \ {c} : InExchange(d) /\ inst[d] = inst[c])

\* two callers, one on F and one on G, wait for the responses of their workers at
\* the same time
C22_Witness ==
    /\ pc[1] = "recv" /\ pc[2] = "recv"
    /\ cname[1] # cname[2]
    /\ inst[1] # inst[2]
    /\ instances[inst[1]].mu = 1 /\ instances[inst[2]].mu = 2

\* C23, as stated: a ShutdownAll that has begun goes through every tracked
\* instance and returns with the table empty, whether or not a process exits on
\* the interrupt.
C23_ShutdownAlwaysReturns ==
    (mainpc = "loop") ~> (mainpc = "idle" /\ AllAbsent)

\* a result of Invoke that reports a failed exchange of messages
MessageFailure(c) == pc[c] = "done" /\ LastResult(c).err \in {"encode", "decode"}

\* C24: a message that cannot be decoded crashes neither side and yields a
\* success=false result with a non-empty errorMessage.  The worker that cannot
\* decode a request writes one success=false response with a message and keeps
\* running; Invoke, when no request could be written or no response can be
\* decoded, returns a success=false response with a message together with the
\* error, with its guard and connection released.
C24_MalformedMessageFails ==
    /\ [](\A p \in DOMAIN instances :
            instances[p].lost # <<>> =>
                /\ Len(instances[p].lost) = 1
                /\ ~instances[p].lost[1].success
                /\ instances[p].lost[1].errorMessage # ""
                /\ instances[p].alive)
    /\ [](\A c \in Callers :
            MessageFailure(c) =>
                /\ ~LastResult(c).resp.success
                /\ LastResult(c).resp.errorMessage # ""
                /\ conn[c] = NoConn
                /\ \A i \in DOMAIN instances : instances[i].mu # c)
    /\ [][\A p \in DOMAIN instances :
            (instances[p].alive /\ instances'[p].orphans < instances[p].orphans
                /\ instances'[p].alive) =>
                instances'[p].lost = <<DecodeFailureResponse("EOF")>>]_vars

\* a worker has answered a connection that carried no request, the call that
\* opened it has returned the encode error, and the worker still runs
C24_Witness ==
    \E c \in Callers, p \in DOMAIN instances :
        /\ MessageFailure(c) /\ LastResult(c).err = "encode"
        /\ instances[p].alive /\ instances[p].orphans = 0
        /\ instances[p].lost = <<DecodeFailureResponse("EOF")>>

\* the worker processes that were spawned and have not exited
Live == {p \in DOMAIN instances : instances[p].alive}

\* C25: at most one worker process per connector name is alive, every live
\* worker process is the process of the instance tracked under its name, and
\* when ShutdownAll returns no worker process is alive.
C25_NoOrphanedProcess ==
    /\ [](\A p \in Live : runningInstances[instances[p].name] = p)
    /\ [](\A p, q \in Live : instances[p].name = instances[q].name => p = q)
    /\ [][(mainpc = "loop" /\ mainpc' = "idle") => Live' = {}]_vars

\* a connector was started again after a ShutdownAll: its first process has
\* exited, its second one runs and is the tracked one
C25_Witness ==
    \E p, q \in DOMAIN instances :
        /\ cleared /\ p # q /\ instances[p].name = instances[q].name
        /\ ~instances[p].alive /\ instances[p].exited
        /\ q \in Live /\ runningInstances[instances[q].name] = q

\* where a caller waits for a lock: RLock of the table, Lock of the table,
\* Lock of the guard
LockWaits == {"lookup", "wlock", "guard"}

\* no caller holds the table lock and a guard together, and Main takes no guard
GuardNeverUnderTableLock ==
    /\ \A c \in Callers :
          instanceMutex = c => \A i \in DOMAIN instances : instances[i].mu # c
    /\ \A i \in DOMAIN instances : instances[i].mu \in Callers \cup {Free}
    /\ \A c \in Callers : pc[c] = "guard" => instanceMutex # c

\* C26, as stated: no caller holds the table lock and a guard at the same time,
\* ShutdownAll takes no guard, and, with workers that answer every connection,
\* no caller that waits for a lock waits forever.
C26_NoLockDeadlock ==
    /\ []GuardNeverUnderTableLock
    /\ \A c \in Callers : \A w \in LockWaits : (pc[c] = w) ~> (pc[c] # w)

\* caller s is in the grace delay after its spawn
Sleeping(s) == pc[s] = "sleep"

\* this step, caller c passes the RLock or the Lock of the table
ObtainsFromTable(c) == pc[c] \in {"lookup", "wlock"} /\ pc'[c] # pc[c]

\* this step, the dial of caller c opens a connection to process p
ConnectsTo(c, p) == pc[c] = "dial" /\ conn'[c].open /\ conn'[c].proc = p

\* during the delay of caller s no other caller passes a lock of the table
TableClosedDuringDelay(s) ==
    Sleeping(s) => \A c \in Callers \ {s} : ~ObtainsFromTable(c)

\* during the delay the spawning caller holds the table lock, the new instance
\* is in the table and no other caller holds it
NewInstanceUnseen ==
    \A s \in Callers :
        Sleeping(s) =>
            /\ instanceMutex = s
            /\ Tracked(cname[s]) # 0
            /\ \A c \in Callers \ {s} : inst[c] # Tracked(cname[s])

\* C27, as stated: during the grace delay no Invoke obtains an instance from
\* the table and none begins a connection to the newly spawned process.
C27_NoConnectionDuringDelay ==
    /\ []NewInstanceUnseen
    /\ [][\A s \in Callers :
            /\ TableClosedDuringDelay(s)
            /\ Sleeping(s) =>
                  \A c \in Callers \ {s} : ~ConnectsTo(c, Tracked(cname[s]))]_vars

\* C27, amended: during the grace delay the spawning caller holds the table
\* lock, no Invoke obtains an instance from the table and none holds the new
\* instance; a connection to the new process is opened during the delay only
\* after a ShutdownAll, by a call that still holds an earlier instance.
C27_NotVisibleDuringDelay ==
    /\ []NewInstanceUnseen
    /\ [][\A s \in Callers :
            /\ TableClosedDuringDelay(s)
            /\ Sleeping(s) =>
                  \A c \in Callers \ {s} :
                      ConnectsTo(c, Tracked(cname[s])) =>
                          /\ cleared
                          /\ inst[c] # Tracked(cname[s])
                          /\ instances[inst[c]].port = instances[Tracked(cname[s])].port]_vars

\* caller 1 is in the delay after its spawn, the new process already listens,
\* and caller 2 waits at the lookup for the table lock
C27_Witness ==
    /\ Sleeping(1) /\ instanceMutex = 1
    /\ instances[Tracked(cname[1])].listening
    /\ pc[2] = "lookup" /\ cname[2] = cname[1]

====
